---- MODULE Spec2Model ----
(***************************************************************************)
(* A model of ilit/adaptor/tf_utils/quantize_graph/quantize_graph_base.py  *)
(* (class QuantizeNodeBase): the graph index, the fusion pattern matcher,  *)
(* the quantization subgraph synthesizer, the weight quantizer and the     *)
(* redundant-quantization eliminator.                                      *)
(*                                                                         *)
(* A node is a record [name, op, input, attr]; a node name is a string;    *)
(* an input reference is kept in parsed form [hat, name, port]: hat is the *)
(* "^" control marker and port the ":k" suffix, NoPort when there is none. *)
(***************************************************************************)
EXTENDS Integers, Sequences, FiniteSets, TLC

VARIABLES
    called,             \* the operation that ran last ("init" before any)
    raised,             \* the exception the last operation ended with, or "none"
    input_graph,        \* self.input_graph: the sequence of nodes
    parsed_graph,       \* the graph the last _parse_graph call read
    node_name_mapping,  \* self.node_name_mapping: an OrderedDict, kept as the
                        \* sequence of its node_details in insertion order
    start_node_name,    \* self.start_node_name
    enable_s8,          \* self.enable_s8
    patterns,           \* the rule list the last _is_match call was given
    match,              \* what the last _is_match call returned
    output_graph,       \* self.output_graph: the sequence of emitted nodes
    output_node_maps,   \* self.output_node_maps: name -> node
    quantized_node_dict,\* self.quantized_node_dict: unique input name -> triple
    per_channel,        \* self.per_channel
    is_asymmetric,      \* self.is_asymmetric
    args,               \* the arguments of the last operation
    returned,           \* what the last operation returned
    ncalls,             \* the number of operations run on the pass so far
    elim_source,        \* when output_graph is the complete result of a
                        \* remove_redundant_quantization call, the graph that
                        \* call was given; <<>> otherwise
    frames              \* the node names of the _find_relu_node frames on the
                        \* call stack, outermost first

indexVars == <<input_graph, parsed_graph, node_name_mapping>>
matchVars == <<start_node_name, enable_s8, patterns, match>>
passVars == <<output_graph, output_node_maps, quantized_node_dict>>
modeVars == <<per_channel, is_asymmetric>>
callVars == <<args, returned, ncalls, elim_source, frames>>

vars == <<called, raised, indexVars, matchVars, passVars, modeVars, callVars>>

-----------------------------------------------------------------------------
(* Bounds of the model *)

MaxIndexNodes == 3      \* longest graph given to _parse_graph
MaxPort == 1            \* largest output-slot index on an index-graph input
MaxCalls == 3           \* operations run on one synthesis pass
RecursionLimit == 7     \* frames the interpreter allows before RecursionError

NoPort == 0 - 1         \* an input reference without a ":k" suffix

-----------------------------------------------------------------------------
(* Input references (quantize_graph_common.QuantizeGraphHelper) *)

Ref(n) == [hat |-> FALSE, name |-> n, port |-> NoPort]
RefPort(n, k) == [hat |-> FALSE, name |-> n, port |-> k]
RefHat(n) == [hat |-> TRUE, name |-> n, port |-> NoPort]

\* helper.node_name_from_input: strips a leading "^" and a trailing ":k"
node_name_from_input(ref) == ref.name

\* helper.ensure_tensor_name_has_port: appends ":0" when there is no ":k"
ensure_tensor_name_has_port(ref) ==
    IF ref.port = NoPort THEN [ref EXCEPT !.port = 0] ELSE ref

-----------------------------------------------------------------------------
(* Graph Index: _parse_graph *)

NoAttr == [k \in {} |-> ""]

Node(n, o, ins) == [name |-> n, op |-> o, input |-> ins, attr |-> NoAttr]

node_details(node) == [node |-> node, input_node |-> <<>>, output |-> <<>>]

\* the keys of the OrderedDict
MappingKeys(m) == {m[i].node.name : i \in 1..Len(m)}

\* m[name]
MappingGet(m, name) == m[CHOOSE i \in 1..Len(m) : m[i].node.name = name]

\* m[target].output.append(consumer)
AppendOutput(m, target, consumer) ==
    [i \in 1..Len(m) |->
        IF m[i].node.name = target
        THEN [m[i] EXCEPT !.output = Append(@, consumer)]
        ELSE m[i]]

\* A plausible slip: no duplicate check, a later node of the same name replaces
\* the earlier entry as a plain dict assignment would.
RECURSIVE IndexNodesNoCheck(_, _, _)
IndexNodesNoCheck(nodes, i, m) ==
    IF i > Len(nodes) THEN [mapping |-> m, raised |-> "none"]
    ELSE IF nodes[i].name \in MappingKeys(m)
         THEN IndexNodesNoCheck(nodes, i + 1,
                  [k \in 1..Len(m) |->
                      IF m[k].node.name = nodes[i].name
                      THEN node_details(nodes[i]) ELSE m[k]])
         ELSE IndexNodesNoCheck(nodes, i + 1, Append(m, node_details(nodes[i])))

\* first loop of _parse_graph: one entry per node, a repeated name raises
RECURSIVE IndexNodes(_, _, _)
IndexNodes(nodes, i, m) ==
    IF i > Len(nodes) THEN [mapping |-> m, raised |-> "none"]
    ELSE IF nodes[i].name \in MappingKeys(m)
         THEN [mapping |-> m, raised |-> "DuplicateNode"]
         ELSE IndexNodes(nodes, i + 1, Append(m, node_details(nodes[i])))

\* second loop of _parse_graph: every input of every node appends the node's
\* name to the consumer list of the node the input names; a name that is not
\* a key raises KeyError and leaves the lists filled so far
RECURSIVE LinkOutputs(_, _, _, _)
LinkOutputs(nodes, i, j, m) ==
    IF i > Len(nodes) THEN [mapping |-> m, raised |-> "none"]
    ELSE IF j > Len(nodes[i].input) THEN LinkOutputs(nodes, i + 1, 1, m)
    ELSE LET target == node_name_from_input(nodes[i].input[j])
         IN  IF target \notin MappingKeys(m)
             THEN [mapping |-> m, raised |-> "KeyError"]
             ELSE LinkOutputs(nodes, i, j + 1,
                              AppendOutput(m, target, nodes[i].name))

\* _parse_graph as a function of the graph it reads
ParseResult(graph) ==
    LET first == IndexNodes(graph, 1, <<>>)
    IN  IF first.raised # "none" THEN first
        ELSE LinkOutputs(graph, 1, 1, first.mapping)

-----------------------------------------------------------------------------
(* The graphs given to _parse_graph: names may repeat, inputs may dangle *)

IndexNames == {"a", "b", "c"}

IndexInputs ==
    {<<>>, <<Ref("a")>>, <<RefHat("b")>>, <<Ref("zz")>>}
        \cup {<<RefPort("a", k)>> : k \in 1..MaxPort}

IndexNodeSet == {Node(n, "Relu", ins) : n \in IndexNames, ins \in IndexInputs}

IndexGraphs == UNION {[1..k -> IndexNodeSet] : k \in 1..MaxIndexNodes}

\* _parse_graph(input_graph=None): the argument given, or self.input_graph
ArgGraphs == {<<>>, <<Node("a", "Relu", <<>>), Node("a", "Relu", <<>>)>>}

NoMatch == [matched |-> FALSE, rule |-> <<>>, names |-> <<>>]

MatchIdle ==
    /\ start_node_name = ""
    /\ enable_s8 = TRUE
    /\ patterns = <<>>
    /\ match = NoMatch

\* the empty dict
EmptyDict == [k \in {} |-> <<>>]

\* lines 94-96 of __init__, and no call made yet
PassIdle ==
    /\ output_graph = <<>>
    /\ output_node_maps = EmptyDict
    /\ quantized_node_dict = EmptyDict
    /\ args = <<>>
    /\ returned = <<>>
    /\ ncalls = 0
    /\ elim_source = <<>>
    /\ frames = <<>>

ModeIdle ==
    /\ per_channel = FALSE
    /\ is_asymmetric = FALSE

InitIndex ==
    /\ called = "init"
    /\ raised = "none"
    /\ input_graph \in IndexGraphs
    /\ parsed_graph = <<>>
    /\ node_name_mapping = <<>>
    /\ MatchIdle
    /\ PassIdle
    /\ ModeIdle

_parse_graph(given, arg) ==
    LET graph == IF given THEN arg ELSE input_graph
        res == ParseResult(graph)
    IN  /\ called' = "_parse_graph"
        /\ parsed_graph' = graph
        /\ node_name_mapping' = res.mapping
        /\ raised' = res.raised
        /\ UNCHANGED <<input_graph, matchVars, passVars, modeVars, callVars>>

NextIndex == \E given \in BOOLEAN, arg \in ArgGraphs : _parse_graph(given, arg)

SpecIndex == InitIndex /\ [][NextIndex]_vars

-----------------------------------------------------------------------------
(* Claims on the Graph Index *)

HasDuplicateNames(graph) ==
    \E i, j \in 1..Len(graph) : i < j /\ graph[i].name = graph[j].name

HasDanglingInput(graph) ==
    \E i \in 1..Len(graph) : \E j \in 1..Len(graph[i].input) :
        node_name_from_input(graph[i].input[j])
            \notin {graph[k].name : k \in 1..Len(graph)}

\* the index holds one entry per node, in graph order, and looking up each
\* node's name returns exactly that node
IndexIsExact(graph, m) ==
    /\ Len(m) = Len(graph)
    /\ \A i \in 1..Len(graph) :
          /\ m[i].node = graph[i]
          /\ MappingGet(m, graph[i].name).node = graph[i]

\* C1 as stated: every call either builds the exact index or, on a graph with
\* a repeated name, fails with the duplicate-node error; no third outcome.
C1_Original ==
    called = "_parse_graph" =>
        \/ /\ raised = "none"
           /\ ~HasDuplicateNames(parsed_graph)
           /\ IndexIsExact(parsed_graph, node_name_mapping)
        \/ /\ HasDuplicateNames(parsed_graph)
           /\ raised = "DuplicateNode"

\* C1 (amended): _parse_graph either builds the exact index (one entry per
\* node, in graph order, each name looked up returns that node), or fails with
\* the duplicate-node error exactly when two nodes share a name, or, when the
\* names are distinct but an input names a node absent from the graph, fails
\* with KeyError while filling the consumer lists; it never returns normally
\* on a graph with duplicate names.
C1_ParseGraphOutcome ==
    called = "_parse_graph" =>
        /\ (raised = "DuplicateNode") = HasDuplicateNames(parsed_graph)
        /\ (raised = "KeyError") =
              (~HasDuplicateNames(parsed_graph) /\ HasDanglingInput(parsed_graph))
        /\ raised \in {"none", "DuplicateNode", "KeyError"}
        /\ raised = "none" => IndexIsExact(parsed_graph, node_name_mapping)
        /\ raised = "KeyError" =>
              \A i \in 1..Len(parsed_graph) :
                  node_name_mapping[i].node = parsed_graph[i]

\* a three-node graph with a consumer edge was indexed
C1_Witness ==
    /\ called = "_parse_graph"
    /\ raised = "none"
    /\ Len(parsed_graph) = 3
    /\ \E i \in 1..3 : Len(node_name_mapping[i].output) > 0

-----------------------------------------------------------------------------
(* Op kinds.  str.find is modelled by the table of the substrings, among    *)
(* those the code searches for, that each op kind of the model contains.   *)

OpSubstrings ==
    [o \in {"Placeholder", "Const", "Add", "AddN", "BiasAdd", "Min", "Max",
            "Reshape", "Concat"} |-> {}]
    @@ ("Relu" :> {"Relu"})
    @@ ("Relu6" :> {"Relu"})
    @@ ("Conv2D" :> {"Conv2D"})
    @@ ("DepthwiseConv2dNative" :> {"DepthwiseConv2dNative"})
    @@ ("MatMul" :> {"MatMul"})
    @@ ("MaxPool" :> {"MaxPool"})
    @@ ("Dequantize" :> {"Dequantize"})
    @@ ("Quantize" :> {})
    @@ ("QuantizeV2" :> {"QuantizeV2"})
    @@ ("QuantizedConv2D" :> {"QuantizedConv", "Conv2D"})
    @@ ("QuantizedConv2DWithBiasAndRelu" :>
            {"QuantizedConv", "Conv2D", "AndRelu", "Relu"})
    @@ ("QuantizedMaxPool" :> {"MaxPool"})

\* op.find(sub) != -1
Contains(op, sub) == sub \in OpSubstrings[op]

\* _need_to_check
_need_to_check(node_type) ==
    \E i \in {"ConcatV2", "Conv2D", "DepthwiseConv2D", "QuantizeV2",
              "DepthwiseConv2dNative", "MaxPool", "Requantize", "AvgPool",
              "Pad", "CropAndResize", "Dequantize", "Mean", "MatMul"} :
        Contains(node_type, i)

\* _find_relu_node; visited counts the nodes of the walk so far.  Names are
\* unique in an index, so a walk of more nodes than the index holds has
\* entered a cycle and the recursion has no end of its own: "RecursionError".
RECURSIVE FindRelu(_, _, _)
FindRelu(m, node, visited) ==
    IF node.op \in {"Relu", "Relu6"} \/ Contains(node.op, "AndRelu")
    THEN "True"
    ELSE IF /\ \/ Contains(node.op, "QuantizedConv")
               \/ Contains(node.op, "QuantizedDepthwiseConv")
               \/ Contains(node.op, "QuantizedMatMul")
            /\ ~Contains(node.op, "Relu")
    THEN "False"
    ELSE IF _need_to_check(node.op)
    THEN IF Len(node.input) = 0 THEN "IndexError"
         ELSE IF node_name_from_input(node.input[1]) \notin MappingKeys(m)
         THEN "KeyError"
         ELSE IF visited >= Len(m) THEN "RecursionError"
         ELSE FindRelu(m, MappingGet(m, node_name_from_input(node.input[1])).node,
                       visited + 1)
    ELSE "False"

_find_relu_node(m, node) == FindRelu(m, node, 1)

-----------------------------------------------------------------------------
(* Fusion Pattern Matcher: _is_match *)

\* _get_op_list
_get_op_list(m) == [i \in 1..Len(m) |-> m[i].node.op]

\* next_node_inputs.index(cur_node_name): 0 when absent (ValueError)
IndexOf(inputs, ref) ==
    IF \E i \in 1..Len(inputs) : inputs[i] = ref
    THEN CHOOSE i \in 1..Len(inputs) :
            /\ inputs[i] = ref
            /\ \A j \in 1..(i - 1) : inputs[j] # ref
    ELSE 0

\* A plausible slip: the Add/AddN test left out.
AddOpQuantizableAlways(m, next_node, cur_node_name) == TRUE

\* lines 164-180: an Add/AddN consumer is quantizable unless an input placed
\* before the chain's tail comes from a node that is not a Dequantize
AddOpQuantizable(m, next_node, cur_node_name) ==
    LET next_node_inputs == next_node.input
        cur_node_index == IndexOf(next_node_inputs, Ref(cur_node_name))
    IN  ~ \E index \in 1..Len(next_node_inputs) :
            /\ next_node_inputs[index] # Ref(cur_node_name)
            /\ index < cur_node_index
            /\ MappingGet(m, node_name_from_input(next_node_inputs[index])).node.op
                   # "Dequantize"

\* A plausible slip: the shared-output test left out.
IsSharedOutputDropped(m, cur_node_name) == FALSE

\* lines 182-184
IsSharedOutput(m, cur_node_name) ==
    Len(MappingGet(m, cur_node_name).output) > 1

\* the while loop of lines 152-195; ok says whether sub_rule_len reached 1
RECURSIVE Extend(_, _, _, _, _)
Extend(m, sub_rule, sub_rule_len, cur_node_name, matched_node_name) ==
    IF sub_rule_len <= 1
    THEN [ok |-> TRUE, names |-> matched_node_name, raised |-> "none"]
    ELSE IF Len(MappingGet(m, cur_node_name).output) = 0
    THEN [ok |-> FALSE, names |-> matched_node_name, raised |-> "none"]
    ELSE LET next_node_name == MappingGet(m, cur_node_name).output[1]
             next_node == MappingGet(m, next_node_name).node
             next_node_op == next_node.op
             is_add == next_node_op \in {"Add", "AddN"}
         IN  IF is_add /\ IndexOf(next_node.input, Ref(cur_node_name)) = 0
             THEN [ok |-> FALSE, names |-> matched_node_name,
                   raised |-> "ValueError"]
             ELSE IF /\ (is_add => AddOpQuantizable(m, next_node, cur_node_name))
                     /\ ~IsSharedOutput(m, cur_node_name)
                     /\ next_node_op = sub_rule[Len(sub_rule) + 2 - sub_rule_len]
             THEN Extend(m, sub_rule, sub_rule_len - 1, next_node_name,
                         Append(matched_node_name, next_node_name))
             ELSE [ok |-> FALSE, names |-> <<>>, raised |-> "none"]

\* A plausible slip: the rules after j tried first, so the last match wins.
RECURSIVE TryRulesLastWins(_, _, _, _)
TryRulesLastWins(m, rules, k, j) ==
    IF j > Len(rules) THEN [matched |-> FALSE, raised |-> "none"]
    ELSE LET later == TryRulesLastWins(m, rules, k, j + 1)
             cur_node_name == m[k].node.name
             res == Extend(m, rules[j], Len(rules[j]), cur_node_name,
                           <<cur_node_name>>)
         IN  IF later.raised # "none" \/ later.matched THEN later
             ELSE IF _get_op_list(m)[k] # rules[j][1] THEN later
             ELSE IF res.raised # "none"
             THEN [matched |-> FALSE, raised |-> res.raised]
             ELSE IF res.ok
             THEN [matched |-> TRUE, rule |-> rules[j], names |-> res.names,
                   raised |-> "none"]
             ELSE later

\* the loop over the rules, lines 139-200, from rule j on
RECURSIVE TryRules(_, _, _, _)
TryRules(m, rules, k, j) ==
    IF j > Len(rules) THEN [matched |-> FALSE, raised |-> "none"]
    ELSE IF _get_op_list(m)[k] # rules[j][1] THEN TryRules(m, rules, k, j + 1)
    ELSE LET cur_node_name == m[k].node.name
             res == Extend(m, rules[j], Len(rules[j]), cur_node_name,
                           <<cur_node_name>>)
         IN  IF res.raised # "none"
             THEN [matched |-> FALSE, raised |-> res.raised]
             ELSE IF res.ok
             THEN [matched |-> TRUE, rule |-> rules[j], names |-> res.names,
                   raised |-> "none"]
             ELSE TryRules(m, rules, k, j + 1)

\* A plausible slip: the lookback demanded when signed 8-bit is enabled.
NeedsReluLookbackFlipped(v, s8) ==
    v \in {"Conv2D", "DepthwiseConv2dNative"} /\ s8

\* lines 134-135
NeedsReluLookback(v, s8) ==
    v \in {"Conv2D", "DepthwiseConv2dNative"} /\ ~s8

\* the loop over the op list, lines 127-202, from position k on
RECURSIVE MatchFrom(_, _, _, _, _)
MatchFrom(m, rules, start, s8, k) ==
    IF k > Len(m) THEN [matched |-> FALSE, raised |-> "none"]
    ELSE LET v == _get_op_list(m)[k]
             cur_node == m[k].node
         IN  IF v \notin {rules[i][1] : i \in 1..Len(rules)}
             THEN MatchFrom(m, rules, start, s8, k + 1)
             ELSE IF cur_node.name # start
             THEN MatchFrom(m, rules, start, s8, k + 1)
             ELSE LET relu == IF NeedsReluLookback(v, s8)
                              THEN _find_relu_node(m, cur_node) ELSE "True"
                  IN  IF relu \notin {"True", "False"}
                      THEN [matched |-> FALSE, raised |-> relu]
                      ELSE IF relu = "False"
                      THEN MatchFrom(m, rules, start, s8, k + 1)
                      ELSE LET res == TryRules(m, rules, k, 1)
                           IN  IF res.raised # "none" \/ res.matched THEN res
                               ELSE MatchFrom(m, rules, start, s8, k + 1)

IsMatchResult(m, rules, start, s8) == MatchFrom(m, rules, start, s8, 1)

-----------------------------------------------------------------------------
(* The graphs given to the matcher: five nodes of distinct names; x is the  *)
(* graph input, n1 may close a cycle through n3, n2 is the usual anchor.    *)

MatchGraphs ==
    {<<Node("x", "Placeholder", <<>>),
       Node("n1", o1, i1), Node("n2", o2, i2),
       Node("n3", o3, i3), Node("n4", o4, i4)>> :
        o1 \in {"Relu", "Dequantize", "MaxPool"},
        i1 \in {<<Ref("x")>>, <<Ref("n3")>>},
        o2 \in {"Conv2D", "DepthwiseConv2dNative", "MatMul"},
        i2 \in {<<Ref("n1")>>, <<Ref("x")>>},
        o3 \in {"Relu", "Add", "MaxPool"},
        i3 \in {<<Ref("n2")>>, <<Ref("n1"), Ref("n2")>>,
                <<Ref("n2"), Ref("n1")>>, <<Ref("n1")>>,
                <<Ref("n1"), RefPort("n2", 0)>>},
        o4 \in {"Relu"},
        i4 \in {<<Ref("n3")>>, <<Ref("n2")>>, <<Ref("n2"), Ref("n3")>>}}

StartNames == {"n1", "n2", "n3"}

\* the rule lists handed to _is_match, in the caller's order
PatternLists ==
    {<< <<"Conv2D", "Add", "Relu">>, <<"Conv2D", "Relu">>, <<"Conv2D">> >>,
     << <<"Conv2D">>, <<"Conv2D", "Relu">> >>,
     << <<"DepthwiseConv2dNative", "Relu">>, <<"MatMul", "Relu">>,
        <<"MatMul">> >>,
     << <<"MatMul", "Add", "Relu">>, <<"Conv2D", "Add">>,
        <<"DepthwiseConv2dNative">> >>,
     << <<"Relu", "Add">>, <<"MaxPool", "Conv2D", "Relu">>, <<"Relu">> >>}

InitMatch ==
    /\ called = "init"
    /\ raised = "none"
    /\ input_graph \in MatchGraphs
    /\ parsed_graph = input_graph
    /\ node_name_mapping = ParseResult(input_graph).mapping
    /\ start_node_name \in StartNames
    /\ enable_s8 \in BOOLEAN
    /\ patterns = <<>>
    /\ match = NoMatch
    /\ PassIdle
    /\ ModeIdle

_is_match(rules) ==
    LET res == IsMatchResult(node_name_mapping, rules, start_node_name, enable_s8)
    IN  /\ called' = "_is_match"
        /\ patterns' = rules
        /\ raised' = res.raised
        /\ match' = IF res.matched
                    THEN [matched |-> TRUE, rule |-> res.rule, names |-> res.names]
                    ELSE NoMatch
        /\ UNCHANGED <<indexVars, start_node_name, enable_s8, passVars,
                       modeVars, callVars>>

NextMatch == \E rules \in PatternLists : _is_match(rules)

SpecMatch == InitMatch /\ [][NextMatch]_vars

-----------------------------------------------------------------------------
(* Claims on the matcher *)

Consumers(name) == MappingGet(node_name_mapping, name).output

\* C2 as stated: no match is anchored at a node with more than one consumer
\* entry, whatever the length of the matched rule.
C2_Original ==
    (called = "_is_match" /\ match.matched) =>
        Len(Consumers(match.names[1])) <= 1

\* C2 (amended): a match of a rule of length two or more is never anchored at
\* a node with more than one entry in its consumer list (it has exactly one);
\* a rule of length one matches its anchor whatever the anchor's consumers.
C2_SharedAnchorNeverExtended ==
    (called = "_is_match" /\ match.matched /\ Len(match.rule) >= 2) =>
        /\ match.names[1] = start_node_name
        /\ Len(Consumers(match.names[1])) = 1

\* a rule of length >= 2 matched although some node of the graph is shared
C2_Witness ==
    /\ called = "_is_match"
    /\ match.matched
    /\ Len(match.rule) >= 2
    /\ \E n \in MappingKeys(node_name_mapping) : Len(Consumers(n)) > 1

\* the op kinds through which the lookback passes to the first input
PassThroughOps == {"Conv2D", "DepthwiseConv2dNative", "MatMul", "MaxPool",
                   "Dequantize"}

\* a ReLU is reached from node name n by at most d first-input steps through
\* pass-through ops (stated without the recursion of _find_relu_node)
RECURSIVE ReluWithin(_, _)
ReluWithin(n, d) ==
    LET node == MappingGet(node_name_mapping, n).node
    IN  \/ node.op = "Relu"
        \/ /\ d > 0
           /\ node.op \in PassThroughOps
           /\ Len(node.input) > 0
           /\ ReluWithin(node.input[1].name, d - 1)

\* C6: with signed 8-bit disabled, a match anchored at a Conv2D or
\* DepthwiseConv2dNative node implies the activation lookback from that anchor
\* is true; the chain x -> Conv2D -> Relu, whose Conv2D has no ReLU upstream,
\* matched from the Conv2D node yields no match.
C6_ConvAnchorNeedsRelu ==
    (called = "_is_match" /\ ~enable_s8) =>
        /\ (match.matched /\ match.rule[1] \in {"Conv2D", "DepthwiseConv2dNative"})
              => /\ _find_relu_node(node_name_mapping,
                        MappingGet(node_name_mapping, match.names[1]).node) = "True"
                 /\ ReluWithin(match.names[1], Len(node_name_mapping))
        /\ ( /\ start_node_name = "n2"
             /\ input_graph[3] = Node("n2", "Conv2D", <<Ref("x")>>)
             /\ input_graph[4] = Node("n3", "Relu", <<Ref("n2")>>)
             /\ \E i \in 1..Len(patterns) : patterns[i] = <<"Conv2D", "Relu">> )
              => (~match.matched /\ raised = "none")

\* the chain x -> Conv2D -> Relu was tried from the Conv2D node against a
\* rule list holding [Conv2D, Relu], signed 8-bit disabled
C6_Witness ==
    /\ called = "_is_match"
    /\ ~enable_s8
    /\ start_node_name = "n2"
    /\ input_graph[3] = Node("n2", "Conv2D", <<Ref("x")>>)
    /\ input_graph[4] = Node("n3", "Relu", <<Ref("n2")>>)
    /\ input_graph[5].input = <<Ref("n3")>>
    /\ \E i \in 1..Len(patterns) : patterns[i] = <<"Conv2D", "Relu">>
    /\ ~match.matched

-----------------------------------------------------------------------------
(* Quantization Subgraph Synthesizer *)

\* helper.unique_node_name_from_input: ":" becomes "__port__", "^" "__hat__"
unique_node_name_from_input(ref) ==
    (IF ref.hat THEN "__hat__" ELSE "") \o ref.name
        \o (IF ref.port = NoPort THEN "" ELSE "__port__" \o ToString(ref.port))

\* helper.set_attr_dtype / set_attr_string / set_attr_bool / set_attr_float
SetAttr(node, key, value) == [node EXCEPT !.attr = (key :> value) @@ @]

\* node.attr[key]; an absent key reads as the default value
AttrGet(node, key) ==
    IF key \in DOMAIN node.attr THEN node.attr[key] ELSE "unset"

\* helper.create_constant_node(name, value, dtype)
ConstNode(n, value, dtype) ==
    SetAttr(SetAttr(Node(n, "Const", <<>>), "dtype", dtype), "value", value)

\* the state a handler works on; once raised is set the rest of the handler
\* does not run
PassState ==
    [graph |-> output_graph, maps |-> output_node_maps,
     memo |-> quantized_node_dict, raised |-> "none"]

\* A plausible slip: the registry is overwritten instead of checked.
AddOutputGraphNodeNoCheck(st, node) ==
    IF st.raised # "none" THEN st
    ELSE [st EXCEPT !.graph = Append(@, node),
                    !.maps = (node.name :> node) @@ @]

\* add_output_graph_node with _add_output_node: the node is appended to the
\* output graph first, then registered; a registered name raises
AddOutputGraphNode(st, node) ==
    IF st.raised # "none" THEN st
    ELSE IF node.name \in DOMAIN st.maps
    THEN [st EXCEPT !.graph = Append(@, node), !.raised = "DuplicateNode"]
    ELSE [st EXCEPT !.graph = Append(@, node),
                    !.maps = (node.name :> node) @@ @]

\* _add_common_quantization_nodes
AddCommonQuantizationNodes(st, namespace_prefix, control_input_names) ==
    LET reshape_dims_name == namespace_prefix \o "_reshape_dims"
        reduction_dims_name == namespace_prefix \o "_reduction_dims"
        ctl == IF control_input_names # ""
               THEN <<RefHat(control_input_names)>> ELSE <<>>
        reshape_dims_node ==
            [ConstNode(reshape_dims_name, 0 - 1, "int32") EXCEPT !.input = ctl]
        reduction_dims_node ==
            [ConstNode(reduction_dims_name, 0, "int32") EXCEPT !.input = ctl]
    IN  AddOutputGraphNode(AddOutputGraphNode(st, reshape_dims_node),
                           reduction_dims_node)

\* A plausible slip: the memo is never consulted.
MemoHitNever(memo, unique_input_name) == FALSE

\* line 548
MemoHit(memo, unique_input_name) == unique_input_name \in DOMAIN memo

\* _eightbitize_input_to_node: [st, ret]
EightbitizeInputToNode(st, namespace_prefix, original_input_name, reshape_dims_name, reduction_dims_name, dtype) ==
    LET unique_input_name == unique_node_name_from_input(original_input_name)
        reshape_input_name == namespace_prefix \o "_reshape_" \o unique_input_name
        min_input_name == namespace_prefix \o "_min_" \o unique_input_name
        max_input_name == namespace_prefix \o "_max_" \o unique_input_name
        quantize_input_name == namespace_prefix \o "_quantize_" \o unique_input_name
        reshape_input_node ==
            SetAttr(Node(reshape_input_name, "Reshape",
                         <<original_input_name, Ref(reshape_dims_name)>>),
                    "T", "float32")
        min_input_node ==
            SetAttr(SetAttr(SetAttr(
                Node(min_input_name, "Min",
                     <<Ref(reshape_input_name), Ref(reduction_dims_name)>>),
                "T", "float32"), "Tidx", "int32"), "keep_dims", "False")
        max_input_node ==
            SetAttr(SetAttr(SetAttr(
                Node(max_input_name, "Max",
                     <<Ref(reshape_input_name), Ref(reduction_dims_name)>>),
                "T", "float32"), "Tidx", "int32"), "keep_dims", "False")
        q0 == SetAttr(SetAttr(
                Node(quantize_input_name, "QuantizeV2",
                     <<original_input_name, Ref(min_input_name),
                       Ref(max_input_name)>>),
                "T", dtype),
                "mode", IF is_asymmetric THEN "MIN_FIRST" ELSE "SCALED")
        quantize_input_node ==
            IF ~is_asymmetric THEN SetAttr(q0, "round_mode", "HALF_TO_EVEN")
            ELSE q0
        triple == <<Ref(quantize_input_name), RefPort(quantize_input_name, 1),
                    RefPort(quantize_input_name, 2)>>
        st4 == AddOutputGraphNode(AddOutputGraphNode(AddOutputGraphNode(
                   AddOutputGraphNode(st, reshape_input_node),
                   min_input_node), max_input_node), quantize_input_node)
    IN  IF st.raised # "none" THEN [st |-> st, ret |-> <<>>]
        ELSE IF MemoHit(st.memo, unique_input_name)
        THEN [st |-> st, ret |-> st.memo[unique_input_name]]
        ELSE IF st4.raised # "none" THEN [st |-> st4, ret |-> <<>>]
        ELSE [st |-> [st4 EXCEPT !.memo = (unique_input_name :> triple) @@ @],
              ret |-> triple]

\* A plausible slip: the MatMul rule tested before the ReLU lookback and the
\* Dequantize rule.
InputDtypeMatMulFirst(maps, original_node, each_input_name) ==
    IF MappingGet(node_name_mapping, original_node).node.op = "MatMul"
    THEN "quint8" ELSE "qint8"

\* lines 312-334: the dtype of the quantize node of one input, or the
\* exception the lookback ends with
InputDtype(maps, original_node, each_input_name) ==
    LET input_node_name == node_name_from_input(each_input_name)
        anchor == MappingGet(node_name_mapping, original_node).node
        relu == _find_relu_node(node_name_mapping, anchor)
    IN  IF input_node_name \in DOMAIN maps
        THEN IF maps[input_node_name].op = "Dequantize"
             THEN AttrGet(maps[input_node_name], "T")
             ELSE IF relu \notin {"True", "False"} THEN relu
             ELSE IF relu = "True" THEN "quint8"
             ELSE IF anchor.op = "MatMul" THEN "quint8"
             ELSE "qint8"
        ELSE IF relu \notin {"True", "False"} THEN relu
             ELSE IF relu = "True" THEN "quint8" ELSE "qint8"

\* the loop of lines 308-344 from input i on: [st, input_names, min_max_names]
RECURSIVE PrologueLoop(_, _, _, _, _)
PrologueLoop(st, original_node, i, input_names, min_max_names) ==
    LET inputs == MappingGet(node_name_mapping, original_node).node.input
        namespace_prefix == original_node \o "_eightbit"
    IN  IF st.raised # "none" \/ i > Len(inputs)
        THEN [st |-> st, input_names |-> input_names,
              min_max_names |-> min_max_names]
        ELSE IF inputs[i].hat
        THEN PrologueLoop(st, original_node, i + 1, input_names, min_max_names)
        ELSE LET dtype == InputDtype(st.maps, original_node, inputs[i])
                 r == EightbitizeInputToNode(st, namespace_prefix, inputs[i],
                          namespace_prefix \o "_reshape_dims",
                          namespace_prefix \o "_reduction_dims", dtype)
             IN  IF dtype \notin {"quint8", "qint8", "unset"}
                 THEN [st |-> [st EXCEPT !.raised = dtype],
                       input_names |-> input_names,
                       min_max_names |-> min_max_names]
                 ELSE IF r.st.raised # "none"
                 THEN [st |-> r.st, input_names |-> input_names,
                       min_max_names |-> min_max_names]
                 ELSE PrologueLoop(r.st, original_node, i + 1,
                          Append(input_names, r.ret[1]),
                          min_max_names \o <<r.ret[2], r.ret[3]>>)

\* _add_eightbit_prologue_nodes: [st, ret]
AddEightbitPrologueNodes(st, original_node) ==
    LET inputs == MappingGet(node_name_mapping, original_node).node.input
        namespace_prefix == original_node \o "_eightbit"
        st1 == AddCommonQuantizationNodes(st, namespace_prefix,
                   node_name_from_input(inputs[1]))
        loop == PrologueLoop(st1, original_node, 1, <<>>, <<>>)
    IN  IF Len(inputs) = 0
        THEN [st |-> [st EXCEPT !.raised = "IndexError"], ret |-> <<>>]
        ELSE IF loop.st.raised # "none" THEN [st |-> loop.st, ret |-> <<>>]
        ELSE [st |-> loop.st,
              ret |-> loop.input_names \o loop.min_max_names
                          \o SelectSeq(inputs, LAMBDA r : r.hat)]

\* _intel_cpu_add_dequantize_result_node
IntelCpuAddDequantizeResultNode(st, quantized_output_name, original_node_name, dtype, min_tensor_index) ==
    LET dequantize_node ==
            SetAttr(SetAttr(
                Node(original_node_name, "Dequantize",
                     <<Ref(quantized_output_name),
                       RefPort(quantized_output_name, min_tensor_index),
                       RefPort(quantized_output_name, min_tensor_index + 1)>>),
                "T", dtype),
                "mode", IF is_asymmetric THEN "MIN_FIRST" ELSE "SCALED")
    IN  AddOutputGraphNode(st, dequantize_node)

\* clip_value_max as a decimal: mantissa and power of ten
Float(m, e) == [mantissa |-> m, exp10 |-> e]

\* A plausible slip: the two clip bounds exchanged.
ClipValueMaxSwapped(is_relu6) == IF is_relu6 THEN Float(1, 30) ELSE Float(6, 0)

\* lines 513-518
ClipValueMax(is_relu6) == IF is_relu6 THEN Float(6, 0) ELSE Float(1, 30)

\* _add_quantize_down_nodes: [st, ret]
AddQuantizeDownNodes(st, original_node_name, quantized_output_name, requantize_type, is_relu6) ==
    LET quantized_outputs ==
            <<Ref(quantized_output_name), RefPort(quantized_output_name, 1),
              RefPort(quantized_output_name, 2)>>
        range_name == original_node_name \o "_eightbit_requant_range"
        range0 == Node(range_name,
                       IF per_channel THEN "RequantizationRangePerChannel"
                       ELSE "RequantizationRange",
                       quantized_outputs)
        requant_range_node ==
            IF per_channel
            THEN SetAttr(SetAttr(range0, "T", "qint32"),
                         "clip_value_max", ClipValueMax(is_relu6))
            ELSE SetAttr(range0, "Tinput", "qint32")
        min_max_inputs == <<RefPort(range_name, 0), RefPort(range_name, 1)>>
        requantize_name == original_node_name \o "_eightbit_requantize"
        requantize0 == Node(requantize_name,
                            IF per_channel THEN "RequantizePerChannel"
                            ELSE "Requantize",
                            quantized_outputs \o min_max_inputs)
        requantize_node ==
            SetAttr(SetAttr(requantize0,
                            IF per_channel THEN "T" ELSE "Tinput", "qint32"),
                    "out_type", requantize_type)
        st2 == AddOutputGraphNode(AddOutputGraphNode(st, requant_range_node),
                                  requantize_node)
    IN  [st |-> st2,
         ret |-> IF st2.raised = "none" THEN requantize_name ELSE ""]

-----------------------------------------------------------------------------
(* One synthesis pass: the input graph has a graph input x, a ReLU r of it, *)
(* a constant w and two anchors a1, a2 that consume the same float input s  *)
(* and the same w; a2 also has a control input.                             *)

SynthGraphs ==
    {<<Node("x", "Placeholder", <<>>),
       Node("r", "Relu", <<Ref("x")>>),
       Node("w", "Const", <<>>),
       Node("a1", o1, <<s, Ref("w")>>),
       Node("a2", "MatMul", <<s, Ref("w"), RefHat("x")>>)>> :
        o1 \in {"Conv2D", "MatMul"}, s \in {Ref("x"), Ref("r")}}

Anchors == {"a1", "a2"}

InitSynth ==
    /\ called = "init"
    /\ raised = "none"
    /\ input_graph \in SynthGraphs
    /\ parsed_graph = input_graph
    /\ node_name_mapping = ParseResult(input_graph).mapping
    /\ MatchIdle
    /\ PassIdle
    /\ per_channel \in BOOLEAN
    /\ is_asymmetric \in BOOLEAN

\* the pass fields after a handler that ended in state st
Commit(st) ==
    /\ output_graph' = st.graph
    /\ output_node_maps' = st.maps
    /\ quantized_node_dict' = st.memo
    /\ raised' = st.raised
    /\ ncalls' = ncalls + 1
    /\ UNCHANGED <<matchVars, modeVars, parsed_graph, node_name_mapping, frames>>

add_output_graph_node(output_node) ==
    /\ ncalls < MaxCalls
    /\ called' = "add_output_graph_node"
    /\ args' = [output_node |-> output_node]
    /\ returned' = <<>>
    /\ elim_source' = <<>>
    /\ UNCHANGED input_graph
    /\ Commit(AddOutputGraphNode(PassState, output_node))

_intel_cpu_add_dequantize_result_node(quantized_output_name, original_node_name, dtype) ==
    /\ ncalls < MaxCalls
    /\ called' = "_intel_cpu_add_dequantize_result_node"
    /\ args' = [quantized_output_name |-> quantized_output_name,
                original_node_name |-> original_node_name, dtype |-> dtype]
    /\ returned' = <<>>
    /\ elim_source' = <<>>
    /\ UNCHANGED input_graph
    /\ Commit(IntelCpuAddDequantizeResultNode(PassState, quantized_output_name,
                                              original_node_name, dtype, 1))

_add_eightbit_prologue_nodes(original_node) ==
    LET res == AddEightbitPrologueNodes(PassState, original_node)
    IN  /\ ncalls < MaxCalls
        /\ called' = "_add_eightbit_prologue_nodes"
        /\ args' = [original_node |-> original_node]
        /\ returned' = res.ret
        /\ elim_source' = <<>>
        /\ UNCHANGED input_graph
        /\ Commit(res.st)

_add_quantize_down_nodes(original_node_name, quantized_output_name, requantize_type, is_relu6) ==
    LET res == AddQuantizeDownNodes(PassState, original_node_name,
                   quantized_output_name, requantize_type, is_relu6)
    IN  /\ ncalls < MaxCalls
        /\ called' = "_add_quantize_down_nodes"
        /\ args' = [original_node |-> original_node_name,
                    quantized_output_name |-> quantized_output_name,
                    requantize_type |-> requantize_type,
                    is_relu6 |-> is_relu6]
        /\ returned' = res.ret
        /\ elim_source' = <<>>
        /\ UNCHANGED input_graph
        /\ Commit(res.st)

_reset_output_node_maps ==
    /\ ncalls < MaxCalls
    /\ called' = "_reset_output_node_maps"
    /\ args' = <<>>
    /\ returned' = <<>>
    /\ UNCHANGED <<input_graph, elim_source>>
    /\ Commit([PassState EXCEPT !.maps = EmptyDict])

NextSynth ==
    \/ \E i \in 1..2 : add_output_graph_node(input_graph[i])
    \/ \E dtype \in {"quint8", "qint8"} :
          _intel_cpu_add_dequantize_result_node("r_eightbit_quantized", "r", dtype)
    \/ \E a \in Anchors : _add_eightbit_prologue_nodes(a)
    \/ \E is_relu6 \in BOOLEAN :
          _add_quantize_down_nodes("a1", "a1_eightbit_quantized", "quint8",
                                   is_relu6)
    \/ _reset_output_node_maps

SpecSynth == InitSynth /\ [][NextSynth]_vars

-----------------------------------------------------------------------------
(* Claims on the synthesizer *)

\* the float (non-control) input references of the anchors of the input graph
FloatInputsOf(a) ==
    LET inputs == MappingGet(node_name_mapping, a).node.input
    IN  {inputs[i] : i \in {j \in 1..Len(inputs) : ~inputs[j].hat}}

\* positions in the output graph of the nodes of kind op whose first input is ref
EmittedOn(op, ref) ==
    {i \in 1..Len(output_graph) :
        /\ output_graph[i].op = op
        /\ Len(output_graph[i].input) > 0
        /\ output_graph[i].input[1] = ref}

\* positions of the Min or Max nodes that reduce a Reshape of ref
ReducedOn(op, ref) ==
    {i \in 1..Len(output_graph) :
        /\ output_graph[i].op = op
        /\ \E j \in EmittedOn("Reshape", ref) :
              output_graph[i].input[1] = Ref(output_graph[j].name)}

\* the triple naming the outputs of the first QuantizeV2 emitted for ref
FirstQuantizeTriple(ref) ==
    LET i == CHOOSE k \in EmittedOn("QuantizeV2", ref) :
                 \A l \in EmittedOn("QuantizeV2", ref) : k <= l
        n == output_graph[i].name
    IN  <<Ref(n), RefPort(n, 1), RefPort(n, 2)>>

\* the k-th float input of anchor a (control inputs skipped)
FloatInputSeq(a) ==
    SelectSeq(MappingGet(node_name_mapping, a).node.input, LAMBDA r : ~r.hat)

OneSubgraphPerInput ==
    \A a \in Anchors : \A ref \in FloatInputsOf(a) :
        unique_node_name_from_input(ref) \in DOMAIN quantized_node_dict =>
            /\ Cardinality(EmittedOn("Reshape", ref)) = 1
            /\ Cardinality(ReducedOn("Min", ref)) = 1
            /\ Cardinality(ReducedOn("Max", ref)) = 1
            /\ Cardinality(EmittedOn("QuantizeV2", ref)) = 1
            /\ quantized_node_dict[unique_node_name_from_input(ref)]
                  = FirstQuantizeTriple(ref)

PrologueReturnsMemo ==
    (called = "_add_eightbit_prologue_nodes" /\ raised = "none") =>
        LET fs == FloatInputSeq(args.original_node)
            n == Len(fs)
        IN  /\ Len(returned) >= 3 * n
            /\ \A k \in 1..n :
                  /\ unique_node_name_from_input(fs[k]) \in DOMAIN quantized_node_dict
                  /\ <<returned[k], returned[n + 2 * k - 1], returned[n + 2 * k]>>
                        = FirstQuantizeTriple(fs[k])

MemoNeverReplaced ==
    \A u \in DOMAIN quantized_node_dict :
        /\ u \in DOMAIN quantized_node_dict'
        /\ quantized_node_dict'[u] = quantized_node_dict[u]

\* C3: within one pass, whatever calls were made, every float input that has
\* been quantized has exactly one Reshape, one Min, one Max and one QuantizeV2
\* node in the output graph, the memo entry recorded by the first call is
\* never replaced, and every prologue call returns, for each float input of
\* its anchor, the triple (quantize node, min output, max output) of that one
\* QuantizeV2 node.
C3_MemoSharing ==
    [][OneSubgraphPerInput' /\ PrologueReturnsMemo' /\ MemoNeverReplaced]_vars

\* the second anchor's prologue ran after the first's and was answered from
\* the memo: the triples it returned name the first anchor's quantize nodes
C3_Witness ==
    /\ called = "_add_eightbit_prologue_nodes"
    /\ raised = "none"
    /\ args.original_node = "a2"
    /\ returned[1].name = "a1_eightbit_quantize_" \o FloatInputSeq("a2")[1].name
    /\ returned[2] = Ref("a1_eightbit_quantize_w")
    /\ Cardinality(EmittedOn("QuantizeV2", Ref("w"))) = 1

\* the name of the quantize node the prologue of anchor a emits for ref
QuantizeNameFor(a, ref) ==
    a \o "_eightbit_quantize_" \o unique_node_name_from_input(ref)

\* the priority as the claim states it, over the registry before the call
StatedDtype(a, ref) ==
    LET p == node_name_from_input(ref)
    IN  IF p \in DOMAIN output_node_maps /\ output_node_maps[p].op = "Dequantize"
        THEN output_node_maps[p].attr["T"]
        ELSE IF ReluWithin(a, Len(node_name_mapping)) THEN "quint8"
        ELSE IF MappingGet(node_name_mapping, a).node.op = "MatMul" THEN "quint8"
        ELSE "qint8"

\* C5: for every non-control input of the anchor that the prologue quantizes
\* (no memo entry yet), the dtype of the emitted quantize node follows the
\* priority Dequantize producer > ReLU lookback > MatMul > signed, whether or
\* not the producer is in the output registry.
C5_DtypePriority ==
    [][(called' = "_add_eightbit_prologue_nodes" /\ raised' = "none") =>
          \A ref \in FloatInputsOf(args'.original_node) :
              unique_node_name_from_input(ref) \notin DOMAIN quantized_node_dict =>
                  output_node_maps'[QuantizeNameFor(args'.original_node, ref)].attr["T"]
                      = StatedDtype(args'.original_node, ref)]_vars

\* the priority as lines 313-334 apply it: the MatMul rule is reached only
\* when the producer is in the registry
ImplementedDtype(a, ref) ==
    LET p == node_name_from_input(ref)
        relu == ReluWithin(a, Len(node_name_mapping))
    IN  IF p \in DOMAIN output_node_maps
        THEN StatedDtype(a, ref)
        ELSE IF relu THEN "quint8" ELSE "qint8"

\* C5 (what the code does): as C5_DtypePriority when the producer is in the
\* output registry; otherwise unsigned iff the lookback finds a ReLU, a MatMul
\* anchor included.
C5_AsImplemented ==
    [][(called' = "_add_eightbit_prologue_nodes" /\ raised' = "none") =>
          \A ref \in FloatInputsOf(args'.original_node) :
              unique_node_name_from_input(ref) \notin DOMAIN quantized_node_dict =>
                  output_node_maps'[QuantizeNameFor(args'.original_node, ref)].attr["T"]
                      = ImplementedDtype(args'.original_node, ref)]_vars

LastRangeNode == output_graph[Len(output_graph) - 1]
LastRequantizeNode == output_graph[Len(output_graph)]

RequantizeWiring ==
    LET q == args.quantized_output_name
        r == LastRangeNode.name
    IN  /\ LastRangeNode.op \in {"RequantizationRange",
                                 "RequantizationRangePerChannel"}
        /\ LastRangeNode.name = args.original_node \o "_eightbit_requant_range"
        /\ LastRequantizeNode.op \in {"Requantize", "RequantizePerChannel"}
        /\ LastRequantizeNode.input =
              <<Ref(q), RefPort(q, 1), RefPort(q, 2), RefPort(r, 0), RefPort(r, 1)>>

StatedClip == IF args.is_relu6 THEN Float(6, 0) ELSE Float(1, 30)

\* C10 as stated: in both modes the emitted range node carries the clip bound.
C10_Original ==
    (called = "_add_quantize_down_nodes" /\ raised = "none") =>
        /\ "clip_value_max" \in DOMAIN LastRangeNode.attr
        /\ LastRangeNode.attr["clip_value_max"] = StatedClip
        /\ RequantizeWiring

\* C10 (amended): whenever _add_quantize_down_nodes emits the epilogue, the
\* Requantize node consumes the quantized op's three outputs followed by the
\* range node's two outputs; in per-channel mode the range node carries the
\* clip bound 6.0 when is_relu6 and 1e30 otherwise; in per-tensor mode the
\* range node carries no clip bound at all.
C10_RequantizeEpilogue ==
    (called = "_add_quantize_down_nodes" /\ raised = "none") =>
        /\ RequantizeWiring
        /\ per_channel =>
              /\ "clip_value_max" \in DOMAIN LastRangeNode.attr
              /\ LastRangeNode.attr["clip_value_max"] = StatedClip
        /\ ~per_channel => "clip_value_max" \notin DOMAIN LastRangeNode.attr

\* a per-channel epilogue for a chain ending in Relu6 was emitted
C10_Witness ==
    /\ called = "_add_quantize_down_nodes"
    /\ raised = "none"
    /\ per_channel
    /\ args.is_relu6
    /\ LastRangeNode.attr["clip_value_max"] = Float(6, 0)

-----------------------------------------------------------------------------
(* Redundant-Quantization Eliminator: remove_redundant_quantization *)

GraphNames(graph) == {graph[i].name : i \in 1..Len(graph)}

\* old_nodes_map[name]
NodesMapGet(graph, name) == graph[CHOOSE i \in 1..Len(graph) : graph[i].name = name]

\* create_nodes_map: raises on a repeated name
CreateNodesMapRaises(graph) ==
    \E i, j \in 1..Len(graph) : i < j /\ graph[i].name = graph[j].name

\* lines 439-460: do the min and max inputs trace to the same source?
\* "True", "False" or the exception raised while looking
IsSameInput(graph, min_node, max_node) ==
    IF Len(min_node.input) = 0 \/ Len(max_node.input) = 0 THEN "IndexError"
    ELSE LET min_node_input_name == node_name_from_input(min_node.input[1])
             max_node_input_name == node_name_from_input(max_node.input[1])
         IN  IF min_node_input_name = max_node_input_name THEN "True"
             ELSE IF min_node_input_name \notin GraphNames(graph) THEN "KeyError"
             ELSE LET first_min_node_input == NodesMapGet(graph, min_node_input_name)
                  IN  IF first_min_node_input.op # "Concat" THEN "False"
                      ELSE IF Len(first_min_node_input.input) < 2 THEN "IndexError"
                      ELSE IF node_name_from_input(first_min_node_input.input[2])
                                  \notin GraphNames(graph)
                      THEN "KeyError"
                      ELSE LET second_min_node ==
                                   NodesMapGet(graph, node_name_from_input(
                                       first_min_node_input.input[2]))
                           IN  IF second_min_node.op # "Min" THEN "False"
                               ELSE IF Len(second_min_node.input) = 0
                               THEN "IndexError"
                               ELSE IF node_name_from_input(second_min_node.input[1])
                                          = max_node_input_name
                               THEN "True" ELSE "False"

\* lines 412-463 for one node: "rewire", "skip" or the exception raised
QuantizeVerdict(graph, node) ==
    IF node.op \notin {"Quantize", "QuantizeV2"} THEN "skip"
    ELSE IF Len(node.input) = 0 THEN "IndexError"
    ELSE IF node_name_from_input(node.input[1]) \notin GraphNames(graph)
    THEN "ValueError"
    ELSE LET dequantize_node ==
                 NodesMapGet(graph, node_name_from_input(node.input[1]))
         IN  IF dequantize_node.op # "Dequantize" THEN "skip"
             ELSE IF AttrGet(node, "T") # AttrGet(dequantize_node, "T") THEN "skip"
             ELSE IF Len(node.input) < 3 THEN "IndexError"
             ELSE IF \/ node_name_from_input(node.input[2]) \notin GraphNames(graph)
                     \/ node_name_from_input(node.input[3]) \notin GraphNames(graph)
             THEN "KeyError"
             ELSE LET min_node == NodesMapGet(graph, node_name_from_input(node.input[2]))
                      max_node == NodesMapGet(graph, node_name_from_input(node.input[3]))
                      same == IsSameInput(graph, min_node, max_node)
                  IN  IF \/ min_node.op \notin {"Min", "Dequantize"}
                         \/ max_node.op \notin {"Max", "Dequantize"}
                      THEN "skip"
                      ELSE IF same \notin {"True", "False"} THEN same
                      ELSE IF same = "False" THEN "skip"
                      ELSE IF Len(dequantize_node.input) < 3 THEN "IndexError"
                      ELSE "rewire"

\* A plausible slip: the max output mapped to the Quantize node's own min
\* output instead of the Dequantize node's max input.
RewireEntriesMaxToMin(node, dequantize_node) ==
    (RefPort(node.name, 0) :> Ref(node_name_from_input(dequantize_node.input[1])))
    @@ (RefPort(node.name, 1) :> dequantize_node.input[2])
    @@ (RefPort(node.name, 2) :> RefPort(node.name, 1))

\* lines 466-474: the three entries recorded for an eliminated Quantize node
RewireEntries(node, dequantize_node) ==
    (ensure_tensor_name_has_port(Ref(node.name))
        :> Ref(node_name_from_input(dequantize_node.input[1])))
    @@ (RefPort(node.name, 1) :> dequantize_node.input[2])
    @@ (RefPort(node.name, 2) :> dequantize_node.input[3])

\* the scan of lines 409-474 from node i on: [map, raised]
RECURSIVE ScanRewires(_, _, _)
ScanRewires(graph, i, inputs_to_rename) ==
    IF i > Len(graph) THEN [map |-> inputs_to_rename, raised |-> "none"]
    ELSE LET verdict == QuantizeVerdict(graph, graph[i])
         IN  IF verdict = "skip" THEN ScanRewires(graph, i + 1, inputs_to_rename)
             ELSE IF verdict # "rewire"
             THEN [map |-> inputs_to_rename, raised |-> verdict]
             ELSE ScanRewires(graph, i + 1,
                      RewireEntries(graph[i],
                          NodesMapGet(graph, node_name_from_input(graph[i].input[1])))
                      @@ inputs_to_rename)

\* lines 477-481: the inputs of one node after the rewiring
RenameInputs(node, inputs_to_rename) ==
    [node EXCEPT !.input =
        [index \in 1..Len(node.input) |->
            IF ensure_tensor_name_has_port(node.input[index])
                   \in DOMAIN inputs_to_rename
            THEN inputs_to_rename[ensure_tensor_name_has_port(node.input[index])]
            ELSE node.input[index]]]

\* the loop of lines 476-482 from node i on; old is rewritten in place
RECURSIVE ApplyRewires(_, _, _, _)
ApplyRewires(st, old, i, inputs_to_rename) ==
    IF st.raised # "none" \/ i > Len(old) THEN [st |-> st, old |-> old]
    ELSE LET node == RenameInputs(old[i], inputs_to_rename)
         IN  ApplyRewires(AddOutputGraphNode(st, node),
                          [old EXCEPT ![i] = node], i + 1, inputs_to_rename)

\* A plausible slip: the output graph not emptied before the nodes are added.
RemoveRedundantQuantizationKeepGraph(st, old_graph) ==
    LET scan == ScanRewires(old_graph, 1, EmptyDict)
    IN  IF CreateNodesMapRaises(old_graph)
        THEN [st |-> [st EXCEPT !.raised = "ValueError"], old |-> old_graph]
        ELSE IF scan.raised # "none"
        THEN [st |-> [st EXCEPT !.raised = scan.raised], old |-> old_graph]
        ELSE ApplyRewires(st, old_graph, 1, scan.map)

\* remove_redundant_quantization: [st, old]
RemoveRedundantQuantization(st, old_graph) ==
    LET scan == ScanRewires(old_graph, 1, EmptyDict)
    IN  IF CreateNodesMapRaises(old_graph)
        THEN [st |-> [st EXCEPT !.raised = "ValueError"], old |-> old_graph]
        ELSE IF scan.raised # "none"
        THEN [st |-> [st EXCEPT !.graph = <<>>, !.raised = scan.raised],
              old |-> old_graph]
        ELSE ApplyRewires([st EXCEPT !.graph = <<>>], old_graph, 1, scan.map)

\* a node carrying its T attribute
TNode(n, o, ins, t) == SetAttr(Node(n, o, ins), "T", t)

\* Graphs with two Dequantize/Quantize round trips q1 and q2 and a consumer c;
\* the second round trip may read the first, and its min/max inputs vary.
ElimGraphs ==
    {<<Node("s", "Placeholder", <<>>),
       Node("r", "Reshape", <<Ref("s")>>),
       Node("m2", "Min", <<Ref("r")>>),
       Node("cc", "Concat", <<Ref("s"), Ref(c2)>>),
       Node("mn1", "Min", <<Ref("r")>>),
       Node("mx1", "Max", <<Ref("r")>>),
       Node("mn", omn, <<Ref(imn)>>),
       Node("mx", omx, <<Ref("r")>>),
       TNode("d1", "Dequantize",
             <<Ref("s"), RefPort("s", 1), RefPort("s", 2)>>, "qint8"),
       TNode("q1", "QuantizeV2", <<Ref("d1"), Ref("mn1"), Ref("mx1")>>, t1),
       TNode("d2", "Dequantize",
             <<id2, RefPort("q1", 1), RefPort("q1", 2)>>, "quint8"),
       TNode("q2", "Quantize", <<Ref("d2"), Ref("mn"), Ref("mx")>>, "quint8"),
       Node("c", "Relu", <<a, b, RefPort("q2", 2)>>)>> :
        c2 \in {"m2", "mx"}, omn \in {"Min", "Relu"}, imn \in {"r", "cc", "q1"},
        omx \in {"Max", "Dequantize"}, t1 \in {"qint8", "quint8"},
        id2 \in {Ref("q1"), RefPort("s", 1)},
        a \in {Ref("q2"), RefPort("q2", 0), RefHat("q2")},
        b \in {RefPort("q2", 1), Ref("q1")}}

InitElim ==
    /\ called = "init"
    /\ raised = "none"
    /\ input_graph \in ElimGraphs
    /\ parsed_graph = input_graph
    /\ node_name_mapping = ParseResult(input_graph).mapping
    /\ MatchIdle
    /\ PassIdle
    /\ ModeIdle

\* remove_redundant_quantization(old_graph), called on the input graph or on
\* the pass's own output graph
remove_redundant_quantization(which) ==
    LET old_graph == IF which = "output_graph" THEN output_graph ELSE input_graph
        res == RemoveRedundantQuantization(PassState, old_graph)
    IN  /\ ncalls < MaxCalls
        /\ which = "output_graph" => output_graph # <<>>
        /\ called' = "remove_redundant_quantization"
        /\ args' = [which |-> which, old_graph |-> old_graph]
        /\ returned' = IF res.st.raised = "none" THEN res.st.graph ELSE <<>>
        /\ input_graph' = IF which = "input_graph" THEN res.old ELSE input_graph
        /\ elim_source' = IF res.st.raised = "none" THEN old_graph ELSE <<>>
        /\ Commit(res.st)

NextElim ==
    \/ \E which \in {"input_graph", "output_graph"} :
          remove_redundant_quantization(which)
    \/ _reset_output_node_maps

SpecElim == InitElim /\ [][NextElim]_vars

-----------------------------------------------------------------------------
(* Claims on the eliminator *)

\* the names of the Quantize nodes of graph that the scan marks for rewiring
Eliminated(graph) ==
    {graph[i].name : i \in {j \in 1..Len(graph) :
                               QuantizeVerdict(graph, graph[j]) = "rewire"}}

\* C4: remove_redundant_quantization is idempotent: run on the output of a
\* successful run of itself, it returns a graph with the same nodes and the
\* same input lists, also when the Dequantize source of one eliminated
\* Quantize node is the output of another eliminated Quantize node.
C4_Idempotent ==
    [][(/\ called' = "remove_redundant_quantization"
        /\ raised' = "none"
        /\ args'.which = "output_graph"
        /\ elim_source # <<>>)
       => output_graph' = output_graph]_vars

-----------------------------------------------------------------------------
(* Weight Quantizer: _intel_cpu_quantize_weight_eightbit *)

\* Floats are held exactly, as integer multiples of 1e-7.
One == 10000000
epsilon == 1000
NearZero == 10
QMax == 127

Abs(x) == IF x < 0 THEN 0 - x ELSE x

SetMax(S) == CHOOSE m \in S : \A x \in S : x <= m
SetMin(S) == CHOOSE m \in S : \A x \in S : m <= x

\* tensor_util.MakeNdarray: the shape and the elements in row-major order
NdArray(shape, flat) == [shape |-> shape, flat |-> flat]

\* the index on the last axis (of size n) of the j-th element in row-major order
ChannelOf(j, n) == ((j - 1) % n) + 1

\* np.abs(float_tensor).max over every axis but the last, of size n
AbsMaxPerChannel(flat, n) ==
    [k \in 1..n |->
        SetMax({Abs(flat[j]) : j \in {i \in 1..Len(flat) : ChannelOf(i, n) = k}})]

\* A plausible slip: max_value taken as a copy of ranges and min_value nudged
\* only when it is exactly zero.
NudgeRangesZeroOnly(observed) ==
    [ranges |-> [k \in DOMAIN observed |->
                    IF observed[k] < epsilon THEN epsilon ELSE observed[k]],
     min_value |-> [k \in DOMAIN observed |->
                    IF observed[k] = 0 THEN 0 - epsilon ELSE 0 - observed[k]],
     max_value |-> [k \in DOMAIN observed |->
                    IF observed[k] = 0 THEN epsilon ELSE observed[k]]]

\* lines 614-619 and 659-664: min_value is a new array, max_value is the
\* array ranges itself, so the nudge of ranges is also a nudge of max_value
NudgeRanges(observed) ==
    LET min0 == [k \in DOMAIN observed |-> 0 - observed[k]]
        ranges == [k \in DOMAIN observed |->
                      IF observed[k] < epsilon THEN epsilon ELSE observed[k]]
        min_value == [k \in DOMAIN min0 |->
                         IF Abs(min0[k]) < epsilon THEN 0 - epsilon ELSE min0[k]]
        max_value == [k \in DOMAIN ranges |->
                         IF Abs(ranges[k]) < epsilon THEN epsilon ELSE ranges[k]]
    IN  [ranges |-> max_value, min_value |-> min_value, max_value |-> max_value]

\* astype(np.int8) of the quotient a / b, b > 0: the fraction is dropped
\* (toward zero); |a / b| <= 127 here, so the value fits
AsInt8(a, b) == IF a >= 0 THEN a \div b ELSE 0 - ((0 - a) \div b)

\* (float_tensor * 127.0 / ranges).astype(np.int8), ranges broadcast on the
\* last axis
QuantizePerChannel(flat, ranges) ==
    [j \in 1..Len(flat) |->
        AsInt8(flat[j] * QMax, ranges[ChannelOf(j, Len(ranges))])]

\* A plausible slip: the clamp of a positive minimum to zero left out.
RangeCorrectionNoClamp(flat) ==
    LET min_value == SetMin({flat[j] : j \in 1..Len(flat)})
        observed_max == SetMax({flat[j] : j \in 1..Len(flat)})
    IN  [min_value |-> min_value,
         max_value |-> IF min_value # observed_max THEN observed_max
                       ELSE IF Abs(min_value) < NearZero THEN min_value + One
                       ELSE IF min_value > 0 THEN 2 * min_value
                       ELSE 0 - ((0 - min_value) \div 2)]

\* A plausible slip: a degenerate negative range doubled instead of halved.
RangeCorrectionDoubledNegative(flat) ==
    LET observed_min == SetMin({flat[j] : j \in 1..Len(flat)})
        observed_max == SetMax({flat[j] : j \in 1..Len(flat)})
        min_value == IF observed_min > 0 THEN 0 ELSE observed_min
    IN  [min_value |-> min_value,
         max_value |-> IF min_value # observed_max THEN observed_max
                       ELSE IF Abs(min_value) < NearZero THEN min_value + One
                       ELSE 2 * min_value]

\* lines 622-634: the range handed to the quantize kernel
RangeCorrection(flat) ==
    LET observed_min == SetMin({flat[j] : j \in 1..Len(flat)})
        observed_max == SetMax({flat[j] : j \in 1..Len(flat)})
        min_value == IF observed_min > 0 THEN 0 ELSE observed_min
    IN  [min_value |-> min_value,
         max_value |-> IF min_value # observed_max THEN observed_max
                       ELSE IF Abs(min_value) < NearZero THEN min_value + One
                       ELSE IF min_value > 0 THEN 2 * min_value
                       ELSE 0 - ((0 - min_value) \div 2)]

\* array_ops.quantize_v2(...)[out]: the kernel is outside the repository and
\* is kept as an application to its arguments
quantize_v2(float_tensor, range, quantization_mode, out) ==
    [op |-> "quantize_v2", input |-> float_tensor.flat,
     min_range |-> range.min_value, max_range |-> range.max_value,
     T |-> "qint8", mode |-> quantization_mode, round_mode |-> "HALF_TO_EVEN",
     out |-> out]

\* lines 609-672: [raised, ranges, kernel_range, qint8_tensor, min_value,
\* max_value]
QuantizeWeight(parent, float_tensor, per_channel_arg, quantization_mode) ==
    LET shape == float_tensor.shape
        flat == float_tensor.flat
        failed(e) == [raised |-> e, ranges |-> <<>>, kernel_range |-> <<>>,
                      qint8_tensor |-> <<>>, min_value |-> <<>>,
                      max_value |-> <<>>]
        channelwise(n) ==
            LET nudged == NudgeRanges(AbsMaxPerChannel(flat, n))
            IN  [raised |-> "none", ranges |-> nudged.ranges,
                 kernel_range |-> <<>>,
                 qint8_tensor |-> QuantizePerChannel(flat, nudged.ranges),
                 min_value |-> nudged.min_value, max_value |-> nudged.max_value]
    IN  IF parent \in {"Conv2D", "MatMul"}
        THEN IF per_channel_arg
             THEN IF Len(shape) < 3 THEN failed("AxisError")
                  ELSE IF Len(shape) = 3 THEN failed("TypeError")
                  ELSE channelwise(shape[Len(shape)])
             ELSE LET range == RangeCorrection(flat)
                  IN  [raised |-> "none", ranges |-> <<>>, kernel_range |-> range,
                       qint8_tensor |->
                           quantize_v2(float_tensor, range, quantization_mode, 0),
                       min_value |->
                           quantize_v2(float_tensor, range, quantization_mode, 1),
                       max_value |->
                           quantize_v2(float_tensor, range, quantization_mode, 2)]
        ELSE IF parent = "DepthwiseConv2dNative"
        THEN IF Len(shape) # 4 THEN failed("ValueError")
             ELSE channelwise(shape[3] * shape[4])
        ELSE failed("UnboundLocalError")

\* weight values: -3e-4, -4e-7, 0, 9e-5 and 2e-4
WeightValues == {0 - 3000, 0 - 4, 0, 900, 2000}

\* a convolution filter, a depthwise filter with two positions, a MatMul weight
WeightShapes == {<<1, 1, 2, 2>>, <<2, 1, 1, 2>>, <<2, 2>>}

WeightTensors ==
    {NdArray(shape, <<v1, v2, v3, v4>>) :
        shape \in WeightShapes, v1 \in WeightValues, v2 \in WeightValues,
        v3 \in WeightValues, v4 \in WeightValues}

InitWeight ==
    /\ called = "init"
    /\ raised = "none"
    /\ \E float_tensor \in WeightTensors :
          input_graph = <<ConstNode("w", float_tensor, "float32")>>
    /\ parsed_graph = input_graph
    /\ node_name_mapping = ParseResult(input_graph).mapping
    /\ MatchIdle
    /\ PassIdle
    /\ per_channel \in BOOLEAN
    /\ is_asymmetric = FALSE

_intel_cpu_quantize_weight_eightbit(parent, input_node, per_channel_arg) ==
    LET base_name == input_node.name \o "_"
        float_tensor == AttrGet(input_node, "value")
        q == QuantizeWeight(parent, float_tensor, per_channel_arg, "SCALED")
        qint8_const_node ==
            SetAttr(ConstNode(base_name \o "qint8_const", q.qint8_tensor, "qint8"),
                    "shape", float_tensor.shape)
        min_node == ConstNode(base_name \o "min", q.min_value, "float32")
        max_node == ConstNode(base_name \o "max", q.max_value, "float32")
        st == AddOutputGraphNode(
                  AddOutputGraphNode(
                      AddOutputGraphNode([PassState EXCEPT !.raised = q.raised],
                                         qint8_const_node),
                      min_node),
                  max_node)
    IN  /\ ncalls < MaxCalls
        /\ called' = "_intel_cpu_quantize_weight_eightbit"
        /\ args' = [parent |-> parent, input_node |-> input_node,
                    per_channel |-> per_channel_arg]
        /\ returned' = q
        /\ elim_source' = <<>>
        /\ UNCHANGED input_graph
        /\ Commit(st)

\* the op kinds whose weight input has the rank of the tensor: MatMul takes
\* matrices, the convolutions take 4-D filters
ParentsOf(float_tensor) ==
    IF Len(float_tensor.shape) = 2 THEN {"MatMul"}
    ELSE {"Conv2D", "DepthwiseConv2dNative"}

NextWeight ==
    \E parent \in ParentsOf(AttrGet(input_graph[1], "value")) :
        _intel_cpu_quantize_weight_eightbit(parent, input_graph[1], per_channel)

SpecWeight == InitWeight /\ [][NextWeight]_vars

-----------------------------------------------------------------------------
(* Claims on the weight quantizer *)

\* the elements of the weight the last call was given
ObservedFlat == AttrGet(args.input_node, "value").flat
ObservedMin == SetMin({ObservedFlat[j] : j \in 1..Len(ObservedFlat)})
ObservedMax == SetMax({ObservedFlat[j] : j \in 1..Len(ObservedFlat)})

\* the last call took the per-tensor path and computed a range
PerTensorDone ==
    /\ called = "_intel_cpu_quantize_weight_eightbit"
    /\ args.parent \in {"Conv2D", "MatMul"}
    /\ ~args.per_channel
    /\ returned.raised = "none"

\* the last call took a per-channel path and computed ranges
ChannelwiseDone ==
    /\ called = "_intel_cpu_quantize_weight_eightbit"
    /\ args.parent = "DepthwiseConv2dNative" \/ args.per_channel
    /\ returned.raised = "none"

Channels == 1..Len(returned.ranges)
ElementsOf(k) ==
    {j \in 1..Len(ObservedFlat) : ChannelOf(j, Len(returned.ranges)) = k}
ObservedAbsMax(k) == SetMax({Abs(ObservedFlat[j]) : j \in ElementsOf(k)})

\* C7 as stated: the correction maps observed min = max = 0 to (0, 1), and
\* an observed degenerate range min = max gets max = min + 1 when
\* |min| < 1e-6, 2*min when min is positive, min/2 when min is negative.
C7_Original ==
    (PerTensorDone /\ ObservedMin = ObservedMax) =>
        IF Abs(ObservedMin) < NearZero
        THEN returned.kernel_range.max_value = ObservedMin + One
        ELSE IF ObservedMin > 0
        THEN returned.kernel_range.max_value = 2 * ObservedMin
        ELSE 2 * returned.kernel_range.max_value = ObservedMin

\* C7 amended: a positive observed minimum is first replaced by 0; only a
\* range that is degenerate after that is widened, to min + 1 when
\* |min| < 1e-6 and to min/2 when min <= -1e-6; so min = max = 0 gives (0, 1)
\* and a positive min = max gives (0, max), never (min, 2*min).
C7_RangeCorrection ==
    PerTensorDone =>
        /\ returned.kernel_range.min_value =
               (IF ObservedMin > 0 THEN 0 ELSE ObservedMin)
        /\ IF ObservedMin > 0 \/ ObservedMin # ObservedMax
           THEN returned.kernel_range.max_value = ObservedMax
           ELSE IF Abs(ObservedMin) < NearZero
           THEN returned.kernel_range.max_value = ObservedMin + One
           ELSE 2 * returned.kernel_range.max_value = ObservedMin
        /\ (ObservedMin = 0 /\ ObservedMax = 0) =>
               returned.kernel_range = [min_value |-> 0, max_value |-> One]

C7_Witness ==
    /\ PerTensorDone
    /\ ObservedMin = 0
    /\ ObservedMax = 0
    /\ returned.kernel_range.max_value = One

\* the epsilon clamp of the ranges, common to C8 as stated and as amended
EpsilonClamp ==
    \A k \in Channels :
        IF ObservedAbsMax(k) < epsilon
        THEN /\ returned.ranges[k] = epsilon
             /\ returned.min_value[k] = 0 - epsilon
             /\ returned.max_value[k] = epsilon
        ELSE /\ returned.ranges[k] = ObservedAbsMax(k)
             /\ returned.min_value[k] = 0 - ObservedAbsMax(k)
             /\ returned.max_value[k] = ObservedAbsMax(k)

C9_RoundToNearest ==
    ChannelwiseDone =>
        \A k \in Channels : \A j \in ElementsOf(k) :
            /\ returned.qint8_tensor[j] \in (0 - QMax)..QMax
            /\ 2 * Abs(returned.qint8_tensor[j] * returned.ranges[k]
                       - ObservedFlat[j] * QMax) <= returned.ranges[k]

-----------------------------------------------------------------------------
(* Claims on the output-node registry *)

\* C11: add_output_graph_node raises the duplicate-node error for every call
\* whose node name the registry already holds, leaving the registry as it
\* was, and succeeds for every other call, recording name -> node.
C11_DuplicateIsFatal ==
    [][called' = "add_output_graph_node" =>
          IF args'.output_node.name \in DOMAIN output_node_maps
          THEN /\ raised' = "DuplicateNode"
               /\ output_node_maps' = output_node_maps
          ELSE /\ raised' = "none"
               /\ DOMAIN output_node_maps' =
                      DOMAIN output_node_maps \cup {args'.output_node.name}
               /\ output_node_maps'[args'.output_node.name] = args'.output_node
               /\ \A n \in DOMAIN output_node_maps :
                      output_node_maps'[n] = output_node_maps[n]]_vars

C11_Witness ==
    /\ called = "add_output_graph_node"
    /\ raised = "DuplicateNode"
    /\ args.output_node.name \in DOMAIN output_node_maps
    /\ output_node_maps[args.output_node.name] = args.output_node

-----------------------------------------------------------------------------
(* Claims on the result of the matcher *)

OpOf(name) == MappingGet(node_name_mapping, name).node.op
InputsOf(name) == MappingGet(node_name_mapping, name).node.input
IndexedNames == {node_name_mapping[i].node.name : i \in 1..Len(node_name_mapping)}

\* every input of the Add/AddN node add placed before the first input that
\* names tail is produced by a Dequantize node
EarlierInputsDequantized(add, tail) ==
    \A i \in 1..Len(InputsOf(add)) :
        (\A j \in 1..i : InputsOf(add)[j] # Ref(tail)) =>
            OpOf(node_name_from_input(InputsOf(add)[i])) = "Dequantize"

\* names is a chain from the start node that rule accepts
FullyMatchedBy(rule, names) ==
    /\ Len(names) = Len(rule)
    /\ names[1] = start_node_name
    /\ \A i \in 1..Len(rule) : OpOf(names[i]) = rule[i]
    /\ \A i \in 2..Len(rule) :
          /\ Consumers(names[i - 1]) = <<names[i]>>
          /\ OpOf(names[i]) \in {"Add", "AddN"} =>
                 EarlierInputsDequantized(names[i], names[i - 1])

FullyMatches(rule) ==
    \E names \in [1..Len(rule) -> IndexedNames] : FullyMatchedBy(rule, names)

\* C12: when _is_match returns (rule, names), rule is the first rule of the
\* caller's list that fully matches from the start node, names has the length
\* of rule, starts at the start node, carries the op kinds of rule, and each
\* later name is the first and only consumer of the one before; when no rule
\* fully matches the result is (None, None).
C12_FirstFullMatch ==
    (called = "_is_match" /\ raised = "none") =>
        /\ match.matched =>
               \E j \in 1..Len(patterns) :
                   /\ patterns[j] = match.rule
                   /\ FullyMatchedBy(patterns[j], match.names)
                   /\ \A i \in 1..(j - 1) : ~FullyMatches(patterns[i])
        /\ (\A j \in 1..Len(patterns) : ~FullyMatches(patterns[j])) =>
               match = NoMatch

C12_Witness ==
    /\ called = "_is_match"
    /\ raised = "none"
    /\ match.matched
    /\ match.rule = <<"Conv2D", "Relu">>
    /\ patterns[1] = <<"Conv2D", "Add", "Relu">>
    /\ match.names = <<start_node_name, Consumers(start_node_name)[1]>>

\* C13: an Add/AddN consumer is appended to the chain only if every input of
\* it placed before the chain's tail is produced by a Dequantize node; with
\* an earlier input of another producer the rule fails and no chain holding
\* that Add/AddN after that tail is returned.
C13_AddNeedsDequantizedInputs ==
    (called = "_is_match" /\ match.matched) =>
        \A i \in 2..Len(match.names) :
            OpOf(match.names[i]) \in {"Add", "AddN"} =>
                EarlierInputsDequantized(match.names[i], match.names[i - 1])

C13_Witness ==
    /\ called = "_is_match"
    /\ match.matched
    /\ Len(match.names) >= 2
    /\ OpOf(match.names[2]) = "Add"
    /\ InputsOf(match.names[2])[1] # Ref(match.names[1])
    /\ OpOf(node_name_from_input(InputsOf(match.names[2])[1])) = "Dequantize"

-----------------------------------------------------------------------------
(* Activation lookback, frame by frame: _find_relu_node *)

\* A plausible slip: the walk continued on the last input.
FindReluFrameLastInput(m, node) ==
    IF node.op \in {"Relu", "Relu6"} \/ Contains(node.op, "AndRelu")
    THEN [outcome |-> "True", next |-> ""]
    ELSE IF /\ \/ Contains(node.op, "QuantizedConv")
               \/ Contains(node.op, "QuantizedDepthwiseConv")
               \/ Contains(node.op, "QuantizedMatMul")
            /\ ~Contains(node.op, "Relu")
    THEN [outcome |-> "False", next |-> ""]
    ELSE IF _need_to_check(node.op)
    THEN IF Len(node.input) = 0 THEN [outcome |-> "IndexError", next |-> ""]
         ELSE IF node_name_from_input(node.input[Len(node.input)])
                    \notin MappingKeys(m)
         THEN [outcome |-> "KeyError", next |-> ""]
         ELSE [outcome |-> "recurse",
               next |-> node_name_from_input(node.input[Len(node.input)])]
    ELSE [outcome |-> "False", next |-> ""]

\* lines 210-223, one frame: what the frame returns or raises by itself, or
\* the node on which it calls _find_relu_node again
FindReluFrame(m, node) ==
    IF node.op \in {"Relu", "Relu6"} \/ Contains(node.op, "AndRelu")
    THEN [outcome |-> "True", next |-> ""]
    ELSE IF /\ \/ Contains(node.op, "QuantizedConv")
               \/ Contains(node.op, "QuantizedDepthwiseConv")
               \/ Contains(node.op, "QuantizedMatMul")
            /\ ~Contains(node.op, "Relu")
    THEN [outcome |-> "False", next |-> ""]
    ELSE IF _need_to_check(node.op)
    THEN IF Len(node.input) = 0 THEN [outcome |-> "IndexError", next |-> ""]
         ELSE IF node_name_from_input(node.input[1]) \notin MappingKeys(m)
         THEN [outcome |-> "KeyError", next |-> ""]
         ELSE [outcome |-> "recurse",
               next |-> node_name_from_input(node.input[1])]
    ELSE [outcome |-> "False", next |-> ""]

\* the lookback is made when signed 8-bit is disabled
InitRelu ==
    /\ InitMatch
    /\ enable_s8 = FALSE

\* _find_relu_node(node) called from outside: the first frame is pushed
FindReluCall(node) ==
    /\ frames = <<>>
    /\ called' = "_find_relu_node"
    /\ raised' = "none"
    /\ args' = [node |-> node]
    /\ returned' = "running"
    /\ frames' = <<node.name>>
    /\ UNCHANGED <<indexVars, matchVars, passVars, modeVars, ncalls, elim_source>>

\* the innermost frame runs: it returns (every caller returns the same value,
\* lines 219-221), raises, or calls itself on its node's first input; past the
\* interpreter's limit that call raises RecursionError
FindReluStep ==
    LET top == MappingGet(node_name_mapping, frames[Len(frames)]).node
        frame == FindReluFrame(node_name_mapping, top)
    IN  /\ frames # <<>>
        /\ IF frame.outcome \in {"True", "False"}
           THEN /\ returned' = frame.outcome
                /\ raised' = "none"
                /\ frames' = <<>>
           ELSE IF frame.outcome # "recurse"
           THEN /\ returned' = "raised"
                /\ raised' = frame.outcome
                /\ frames' = <<>>
           ELSE IF Len(frames) >= RecursionLimit
           THEN /\ returned' = "raised"
                /\ raised' = "RecursionError"
                /\ frames' = <<>>
           ELSE /\ returned' = "running"
                /\ raised' = "none"
                /\ frames' = Append(frames, frame.next)
        /\ UNCHANGED <<called, args, indexVars, matchVars, passVars, modeVars,
                       ncalls, elim_source>>

NextRelu ==
    \/ FindReluCall(MappingGet(node_name_mapping, start_node_name).node)
    \/ FindReluStep

SpecRelu == InitRelu /\ [][NextRelu]_vars /\ WF_vars(FindReluStep)

-----------------------------------------------------------------------------
(* Claims on the activation lookback *)

\* the names of the nodes that the inputs of node name n refer to
ProducersOf(n) == {InputsOf(n)[i].name : i \in 1..Len(InputsOf(n))}

\* the nodes from which the nodes of S are computed, in one to k steps
RECURSIVE Upstream(_, _)
Upstream(S, k) ==
    LET direct == UNION {ProducersOf(n) : n \in S}
    IN  IF k <= 1 THEN direct ELSE direct \cup Upstream(direct, k - 1)

\* the data dependencies of the indexed graph are acyclic
Acyclic ==
    \A n \in IndexedNames : n \notin Upstream({n}, Cardinality(IndexedNames))

\* following first inputs from node name n through pass-through ops only
\* comes back to a node already passed
RECURSIVE OnPassThroughCycle(_, _)
OnPassThroughCycle(n, seen) ==
    /\ OpOf(n) \in PassThroughOps
    /\ Len(InputsOf(n)) > 0
    /\ \/ InputsOf(n)[1].name \in seen \cup {n}
       \/ OnPassThroughCycle(InputsOf(n)[1].name, seen \cup {n})

\* every frame but the innermost is on a pass-through op and called the
\* next frame on that op's first input
FollowsFirstInputs ==
    \A i \in 1..(Len(frames) - 1) :
        /\ OpOf(frames[i]) \in PassThroughOps
        /\ frames[i + 1] = node_name_from_input(InputsOf(frames[i])[1])

NoNodeTwice == \A i, j \in 1..Len(frames) : frames[i] = frames[j] => i = j

\* C14 as stated: on an acyclic graph the lookback follows first inputs of
\* pass-through ops, visits no node twice and ends; started on a cycle of
\* pass-through ops it never ends.
C14_Original ==
    called = "_find_relu_node" =>
        /\ FollowsFirstInputs
        /\ Acyclic => /\ NoNodeTwice
                      /\ frames = <<>> => raised # "RecursionError"
        /\ OnPassThroughCycle(args.node.name, {}) => frames # <<>>

\* the safety part of C14 as amended
LookbackSafe ==
    called = "_find_relu_node" =>
        /\ FollowsFirstInputs
        /\ Len(frames) <= RecursionLimit
        /\ Acyclic => /\ NoNodeTwice
                      /\ frames = <<>> => raised # "RecursionError"
        /\ OnPassThroughCycle(args.node.name, {}) =>
               /\ frames = <<>> => raised = "RecursionError"
               /\ frames # <<>> => returned = "running"

\* C14 amended: on an acyclic graph the lookback follows first inputs of
\* pass-through ops, visits no node twice and ends; started on a cycle of
\* pass-through ops it has no cycle guard and never returns a value: it calls
\* itself until the interpreter's recursion limit ends it with RecursionError.
C14_LookbackTermination ==
    /\ []LookbackSafe
    /\ (called = "_find_relu_node" /\ frames # <<>>) ~> (frames = <<>>)

C14_Witness ==
    /\ called = "_find_relu_node"
    /\ OnPassThroughCycle(args.node.name, {})
    /\ frames = <<>>
    /\ raised = "RecursionError"

-----------------------------------------------------------------------------
(* Claims on the rewiring of the eliminator *)

\* the last call was remove_redundant_quantization and it returned
ElimDone == called = "remove_redundant_quantization" /\ raised = "none"

\* the graph the last call was given, as it was when given
Given == args.old_graph

GivenNode(name) == NodesMapGet(Given, name)

\* the min and max inputs of a Quantize node trace to the same source:
\* directly, or through a Concat whose second operand is a Min on that source
SameSource(min_node, max_node) ==
    \/ min_node.input[1].name = max_node.input[1].name
    \/ /\ GivenNode(min_node.input[1].name).op = "Concat"
       /\ GivenNode(GivenNode(min_node.input[1].name).input[2].name).op = "Min"
       /\ GivenNode(GivenNode(min_node.input[1].name).input[2].name).input[1].name
              = max_node.input[1].name

\* node q of the given graph is a Quantize node of a no-op round trip
Redundant(q) ==
    /\ q.op \in {"Quantize", "QuantizeV2"}
    /\ GivenNode(q.input[1].name).op = "Dequantize"
    /\ AttrGet(q, "T") = AttrGet(GivenNode(q.input[1].name), "T")
    /\ GivenNode(q.input[2].name).op \in {"Min", "Dequantize"}
    /\ GivenNode(q.input[3].name).op \in {"Max", "Dequantize"}
    /\ SameSource(GivenNode(q.input[2].name), GivenNode(q.input[3].name))

\* ref names output 0, 1 or 2 of a redundant Quantize node
NamesRedundantOutput(ref) ==
    /\ ~ref.hat
    /\ ref.port \in {NoPort, 0, 1, 2}
    /\ Redundant(GivenNode(ref.name))

\* the Dequantize node feeding the Quantize node that ref names
DequantizeBehind(ref) == GivenNode(GivenNode(ref.name).input[1].name)

\* what C15 says a reference of the given graph becomes: the source, the min
\* input or the max input of the Dequantize node; any other stays
RewiredAsStated(ref) ==
    IF ~NamesRedundantOutput(ref) THEN ref
    ELSE IF ref.port \in {NoPort, 0} THEN DequantizeBehind(ref).input[1]
    ELSE IF ref.port = 1 THEN DequantizeBehind(ref).input[2]
    ELSE DequantizeBehind(ref).input[3]

\* two references denote the same tensor
SameTensor(r1, r2) ==
    ensure_tensor_name_has_port(r1) = ensure_tensor_name_has_port(r2)

\* C15: the output has the nodes of the input in the same order and differs
\* only in input references: a reference is changed exactly when it names
\* output 0, 1 or 2 of a redundant Quantize node, and then becomes the source,
\* the min input or the max input of the Dequantize node behind it; the other
\* Quantize nodes are skipped without aborting the pass.
C15_FrameEffect ==
    /\ (called = "remove_redundant_quantization" /\ ncalls = 1)
           => raised = "none"
    /\ ElimDone =>
           /\ Len(output_graph) = Len(Given)
           /\ \A i \in 1..Len(Given) :
                 /\ output_graph[i].name = Given[i].name
                 /\ output_graph[i].op = Given[i].op
                 /\ output_graph[i].attr = Given[i].attr
                 /\ Len(output_graph[i].input) = Len(Given[i].input)
                 /\ \A j \in 1..Len(Given[i].input) :
                        SameTensor(output_graph[i].input[j],
                                   RewiredAsStated(Given[i].input[j]))

\* C16: a consumer of the value output of an eliminated Quantize node is
\* rewired to exactly the tensor the Dequantize node read as its first input,
\* output slot included: to slot k of X when that input is X:k.
C16_SourceSlotKept ==
    ElimDone =>
        \A i \in 1..Len(Given) : \A j \in 1..Len(Given[i].input) :
            (/\ NamesRedundantOutput(Given[i].input[j])
             /\ Given[i].input[j].port \in {NoPort, 0})
                => SameTensor(output_graph[i].input[j],
                              DequantizeBehind(Given[i].input[j]).input[1])

\* what the code makes of a reference: as stated, except that the value
\* output is rewired to the source node's name without its output slot
RewiredAsImplemented(ref) ==
    IF NamesRedundantOutput(ref) /\ ref.port \in {NoPort, 0}
    THEN Ref(DequantizeBehind(ref).input[1].name)
    ELSE RewiredAsStated(ref)

\* the frame effect of C15 with the slot of the source dropped
FrameEffectAsImplemented ==
    /\ (called = "remove_redundant_quantization" /\ ncalls = 1)
           => raised = "none"
    /\ ElimDone =>
           /\ Len(output_graph) = Len(Given)
           /\ \A i \in 1..Len(Given) :
                 /\ output_graph[i].name = Given[i].name
                 /\ output_graph[i].op = Given[i].op
                 /\ output_graph[i].attr = Given[i].attr
                 /\ output_graph[i].input =
                        [j \in 1..Len(Given[i].input) |->
                            RewiredAsImplemented(Given[i].input[j])]

-----------------------------------------------------------------------------
(* Claims on the corrected per-tensor range *)

\* C17: for every observed range the range handed to the quantize kernel on
\* the per-tensor path has min <= 0 and min < max; the max = 2 * min case
\* (min = max and min > 0) never happens, a positive min being 0 by then.
C17_CorrectedRangeProper ==
    PerTensorDone =>
        /\ returned.kernel_range.min_value <= 0
        /\ returned.kernel_range.min_value < returned.kernel_range.max_value
        /\ ~(/\ returned.kernel_range.min_value > 0
             /\ returned.kernel_range.max_value
                    = 2 * returned.kernel_range.min_value)
        /\ (ObservedMin = ObservedMax /\ ObservedMin > 0) =>
               returned.kernel_range.max_value # 2 * ObservedMin

C17_Witness ==
    /\ PerTensorDone
    /\ ObservedMin = ObservedMax
    /\ ObservedMin > 0
    /\ returned.kernel_range.min_value = 0
    /\ returned.kernel_range.max_value = ObservedMax

-----------------------------------------------------------------------------
(* The output graph and its registry under every operation on them *)

\* one Dequantize/Quantize round trip, redundant when the dtypes agree
RegistryGraphs ==
    {<<Node("s", "Placeholder", <<>>),
       Node("mn", "Min", <<Ref("s")>>),
       Node("mx", "Max", <<Ref("s")>>),
       TNode("d", "Dequantize",
             <<Ref("s"), RefPort("s", 1), RefPort("s", 2)>>, "quint8"),
       TNode("q", "QuantizeV2", <<Ref("d"), Ref("mn"), Ref("mx")>>, t),
       Node("c", "Relu", <<Ref("q")>>)>> : t \in {"qint8", "quint8"}}

InitRegistry ==
    /\ called = "init"
    /\ raised = "none"
    /\ input_graph \in RegistryGraphs
    /\ parsed_graph = input_graph
    /\ node_name_mapping = ParseResult(input_graph).mapping
    /\ MatchIdle
    /\ PassIdle
    /\ ModeIdle

NextRegistry ==
    \/ \E i \in 1..Len(input_graph) : add_output_graph_node(input_graph[i])
    \/ \E which \in {"input_graph", "output_graph"} :
          remove_redundant_quantization(which)
    \/ _reset_output_node_maps

SpecRegistry == InitRegistry /\ [][NextRegistry]_vars

-----------------------------------------------------------------------------
(* Claims on the output graph and its registry *)

OutputNames == {output_graph[i].name : i \in 1..Len(output_graph)}

OutputNamesDistinct ==
    \A i, j \in 1..Len(output_graph) :
        output_graph[i].name = output_graph[j].name => i = j

\* the names of the output graph are distinct and are the registry's keys
InSync == OutputNamesDistinct /\ OutputNames = DOMAIN output_node_maps

====
